---- MODULE Spec2Model ----
(***************************************************************************)
(* FileInfo (fileinfo.py): recursive directory scan, exclusion by literal  *)
(* substring, size formatting, and the text report.                        *)
(*                                                                         *)
(* Strings are sequences of one-character strings, so that substring       *)
(* search, concatenation, lower-casing, decimal formatting and the join of *)
(* the report are computed, not assumed.  Byte counts are exact naturals   *)
(* written little-endian in base 1024 (<<>> is 0): a division by 1024^k is *)
(* then a shift by k digits, which is what the float division of           *)
(* format_file_size computes exactly for every count below 2^53.           *)
(*                                                                         *)
(* Three specifications share the definitions:                             *)
(*   SpecFormat  format_file_size applied to sampled (size, unit) inputs   *)
(*   SpecScan    scan_files (consumed by a caller) and build_file_list on  *)
(*               the same tree, patterns, unit and per-file outcomes       *)
(*   SpecMain    main(): parse_arguments, the scan loop, the export, and   *)
(*               a second run over the tree the first run left behind      *)
(***************************************************************************)
EXTENDS Integers, Sequences, FiniteSets, TLC

VARIABLES
    fmt_size, fmt_unit, fmt_out, fmt_pc,
    target_directory, exclude_patterns, size_unit, walk, stat, target_is_dir,
    s_idx, s_files_scanned, s_errors, s_pc, yielded,
    b_idx, b_files_scanned, b_errors, b_pc, results_list,
    pc, argv, quiet_mode, output_filename, file_info_list,
    m_files_scanned, m_errors, disk, writes, summary, run

fmt_vars == <<fmt_size, fmt_unit, fmt_out, fmt_pc>>
input_vars == <<target_directory, exclude_patterns, size_unit>>
tree_vars == <<walk, stat, target_is_dir>>
s_vars == <<s_idx, s_files_scanned, s_errors, s_pc, yielded>>
b_vars == <<b_idx, b_files_scanned, b_errors, b_pc, results_list>>
m_vars == <<pc, argv, quiet_mode, output_filename, file_info_list,
            m_files_scanned, m_errors, disk, writes, summary, run>>
vars == <<fmt_vars, input_vars, tree_vars, s_vars, b_vars, m_vars>>

(***************************************************************************)
(* Bounds of the model.                                                    *)
(***************************************************************************)
\* Longest byte count, in base-1024 digits, that SpecFormat formats.
MaxDigits == 4
\* Most files in the tree at the start of a scan.
MaxFiles == 3
\* Runs of main() over the same directory.
MaxRuns == 3

(***************************************************************************)
(* Strings.                                                                *)
(***************************************************************************)
\* Python's `needle in hay` for str: some window of hay equals needle; the
\* empty needle is found in every hay, the empty one included.
Contains(hay, needle) ==
    \E i \in 1..(Len(hay) - Len(needle) + 1) :
        \A j \in 1..Len(needle) : hay[i + j - 1] = needle[j]

UpperAlpha == <<"A", "B", "C", "D", "E", "F", "G", "H", "I", "J", "K", "L", "M",
                "N", "O", "P", "Q", "R", "S", "T", "U", "V", "W", "X", "Y", "Z">>
LowerAlpha == <<"a", "b", "c", "d", "e", "f", "g", "h", "i", "j", "k", "l", "m",
                "n", "o", "p", "q", "r", "s", "t", "u", "v", "w", "x", "y", "z">>

\* str.lower() on one character, and on a string.
LowerChar(c) ==
    IF \E i \in 1..26 : UpperAlpha[i] = c
    THEN LowerAlpha[CHOOSE i \in 1..26 : UpperAlpha[i] = c]
    ELSE c
Lower(s) == [i \in 1..Len(s) |-> LowerChar(s[i])]

RECURSIVE Replace(_, _, _)
\* str.replace(old, new) for a one-character old.
Replace(s, old, new) ==
    IF s = <<>> THEN <<>>
    ELSE (IF Head(s) = old THEN new ELSE <<Head(s)>>) \o Replace(Tail(s), old, new)

RECURSIVE Split(_, _)
\* str.split(sep) for a one-character sep: the pieces between the separators.
Split(s, sep) ==
    IF \A i \in 1..Len(s) : s[i] # sep THEN <<s>>
    ELSE LET k == CHOOSE i \in 1..Len(s) :
                      s[i] = sep /\ \A j \in 1..(i - 1) : s[j] # sep
         IN  <<SubSeq(s, 1, k - 1)>> \o Split(SubSeq(s, k + 1, Len(s)), sep)

RECURSIVE Join(_, _)
\* sep.join(parts).
Join(sep, parts) ==
    IF parts = <<>> THEN <<>>
    ELSE IF Len(parts) = 1 THEN parts[1]
    ELSE parts[1] \o sep \o Join(sep, Tail(parts))

(***************************************************************************)
(* Exact naturals, little-endian in base BYTES_PER_KB.                     *)
(***************************************************************************)
BYTES_PER_KB == 1024

RECURSIVE BigNorm(_)
\* Without leading (most significant) zero digits.
BigNorm(ds) ==
    IF ds = <<>> THEN <<>>
    ELSE IF ds[Len(ds)] = 0 THEN BigNorm(SubSeq(ds, 1, Len(ds) - 1))
    ELSE ds

RECURSIVE BigOfInt(_)
BigOfInt(n) ==
    IF n = 0 THEN <<>>
    ELSE <<n % BYTES_PER_KB>> \o BigOfInt(n \div BYTES_PER_KB)

RECURSIVE MulSmall(_, _, _)
\* ds * c + carry.
MulSmall(ds, c, carry) ==
    IF ds = <<>>
    THEN IF carry = 0 THEN <<>>
         ELSE <<carry % BYTES_PER_KB>> \o MulSmall(<<>>, c, carry \div BYTES_PER_KB)
    ELSE LET t == Head(ds) * c + carry
         IN  <<t % BYTES_PER_KB>> \o MulSmall(Tail(ds), c, t \div BYTES_PER_KB)

RECURSIVE DivSmall(_, _)
\* Quotient and remainder of ds by the small divisor c (long division from
\* the most significant digit).
DivSmall(ds, c) ==
    IF ds = <<>> THEN [q |-> <<>>, r |-> 0]
    ELSE LET hi  == DivSmall(Tail(ds), c)
             cur == hi.r * BYTES_PER_KB + Head(ds)
         IN  [q |-> <<cur \div c>> \o hi.q, r |-> cur % c]

DigitChars == <<"0", "1", "2", "3", "4", "5", "6", "7", "8", "9">>

RECURSIVE DecDigits(_)
DecDigits(ds) ==
    IF ds = <<>> THEN <<>>
    ELSE LET d == DivSmall(ds, 10)
         IN  DecDigits(BigNorm(d.q)) \o <<DigitChars[d.r + 1]>>

\* str(n) / f"{n}" for a non-negative int.
DecStr(ds) == IF BigNorm(ds) = <<>> THEN <<"0">> ELSE DecDigits(BigNorm(ds))

(***************************************************************************)
(* format_file_size                                                        *)
(***************************************************************************)
\* f"{size_in_bytes / BYTES_PER_KB ** k:.2f}": the quotient is exact in a
\* double (the divisor is a power of two and the count is below 2^53), and
\* the format rounds that exact value to two decimals, ties to the even
\* hundredth.  The low k digits are the fraction; multiplying them by 100
\* leaves the hundredths as the carry and the rest to be rounded.
ScaledTwoDecimals(size_in_bytes, k) ==
    LET ds    == BigNorm(size_in_bytes)
        pad   == IF Len(ds) >= k THEN ds ELSE ds \o [i \in 1..(k - Len(ds)) |-> 0]
        frac  == SubSeq(pad, 1, k)
        whole == SubSeq(pad, k + 1, Len(pad))
        prod  == MulSmall(frac, 100, 0) \o <<0>>
        h     == prod[k + 1]
        top   == prod[k]
        low0  == \A i \in 1..(k - 1) : prod[i] = 0
        half  == BYTES_PER_KB \div 2
        above == top > half \/ (top = half /\ ~low0)
        tie   == top = half /\ low0
        up    == above \/ (tie /\ h % 2 = 1)
        h2    == IF up THEN h + 1 ELSE h
        w2    == IF h2 = 100 THEN MulSmall(whole, 1, 1) ELSE whole
        h3    == IF h2 = 100 THEN 0 ELSE h2
    IN  DecStr(w2) \o <<".", DigitChars[(h3 \div 10) + 1], DigitChars[(h3 % 10) + 1]>>

\* GB divides by BYTES_PER_MB.
mut_format_gb_as_mb(size_in_bytes, unit) ==
    LET unit_lower == Lower(unit)
    IN  IF unit_lower = <<"b", "y", "t", "e">>
        THEN DecStr(size_in_bytes) \o <<" ", "B", "y", "t", "e", "s">>
        ELSE IF unit_lower = <<"k", "b">>
        THEN ScaledTwoDecimals(size_in_bytes, 1) \o <<" ", "K", "B">>
        ELSE IF unit_lower = <<"m", "b">>
        THEN ScaledTwoDecimals(size_in_bytes, 2) \o <<" ", "M", "B">>
        ELSE IF unit_lower = <<"g", "b">>
        THEN ScaledTwoDecimals(size_in_bytes, 2) \o <<" ", "G", "B">>
        ELSE IF unit_lower = <<"t", "b">>
        THEN ScaledTwoDecimals(size_in_bytes, 4) \o <<" ", "T", "B">>
        ELSE DecStr(size_in_bytes) \o <<" ", "B", "y", "t", "e", "s">>

\* format_file_size(size_in_bytes, unit).  The ZeroDivisionError and
\* Exception handlers are unreachable for an int and a str: the divisors
\* are non-zero constants.
format_file_size(size_in_bytes, unit) ==
    LET unit_lower == Lower(unit)
    IN  IF unit_lower = <<"b", "y", "t", "e">>
        THEN DecStr(size_in_bytes) \o <<" ", "B", "y", "t", "e", "s">>
        ELSE IF unit_lower = <<"k", "b">>
        THEN ScaledTwoDecimals(size_in_bytes, 1) \o <<" ", "K", "B">>
        ELSE IF unit_lower = <<"m", "b">>
        THEN ScaledTwoDecimals(size_in_bytes, 2) \o <<" ", "M", "B">>
        ELSE IF unit_lower = <<"g", "b">>
        THEN ScaledTwoDecimals(size_in_bytes, 3) \o <<" ", "G", "B">>
        ELSE IF unit_lower = <<"t", "b">>
        THEN ScaledTwoDecimals(size_in_bytes, 4) \o <<" ", "T", "B">>
        ELSE DecStr(size_in_bytes) \o <<" ", "B", "y", "t", "e", "s">>

(***************************************************************************)
(* os.path on POSIX.                                                       *)
(***************************************************************************)
os_sep == "/"
\* The process's working directory, against which relative paths resolve.
cwd == <<"/", "w">>

\* os.path.join(a, b).
os_path_join(a, b) ==
    IF b # <<>> /\ Head(b) = os_sep THEN b
    ELSE IF a = <<>> \/ a[Len(a)] = os_sep THEN a \o b
    ELSE a \o <<os_sep>> \o b

RECURSIVE NormParts(_, _)
\* os.path.normpath on the components of an absolute path: empty and "."
\* components are dropped, ".." removes the component before it.
NormParts(parts, acc) ==
    IF parts = <<>> THEN acc
    ELSE LET c == Head(parts)
         IN  IF c = <<>> \/ c = <<".">> THEN NormParts(Tail(parts), acc)
             ELSE IF c = <<".", ".">>
             THEN NormParts(Tail(parts),
                            IF acc = <<>> THEN acc ELSE SubSeq(acc, 1, Len(acc) - 1))
             ELSE NormParts(Tail(parts), Append(acc, c))

\* The components of os.path.abspath(p).
AbsParts(p) == NormParts(Split(os_path_join(cwd, p), os_sep), <<>>)

\* len(commonprefix([a, b])) on component lists.
CommonLen(a, b) ==
    CHOOSE n \in 0..Len(a) :
        /\ n <= Len(b)
        /\ \A i \in 1..n : a[i] = b[i]
        /\ (n < Len(a) /\ n < Len(b)) => a[n + 1] # b[n + 1]

\* os.path.relpath(path, start).
os_path_relpath(path, start) ==
    LET start_list == AbsParts(start)
        path_list  == AbsParts(path)
        i          == CommonLen(start_list, path_list)
        rel_list   == [j \in 1..(Len(start_list) - i) |-> <<".", ".">>]
                      \o SubSeq(path_list, i + 1, Len(path_list))
    IN  IF rel_list = <<>> THEN <<".">> ELSE Join(<<os_sep>>, rel_list)

RECURSIVE WalkDir(_, _)
\* The dirpath os.walk reports for the directory reached from top through
\* the sub-directory names dirs: each level is join(parent, name).
WalkDir(top, dirs) ==
    IF dirs = <<>> THEN top
    ELSE WalkDir(os_path_join(top, Head(dirs)), Tail(dirs))

(***************************************************************************)
(* should_exclude                                                          *)
(***************************************************************************)
\* Alternative 3 of the docstring: the pattern is looked up in the filename.
mut_should_exclude_filename(file_path, filename, patterns) ==
    IF patterns = <<>> THEN FALSE
    ELSE \E k \in 1..Len(patterns) : Contains(filename, patterns[k])

\* should_exclude(file_path, filename, patterns).  Every pattern is a str
\* (argparse delivers strings), so the TypeError handler is not entered.
should_exclude(file_path, filename, patterns) ==
    IF patterns = <<>> THEN FALSE
    ELSE \E k \in 1..Len(patterns) : Contains(file_path, patterns[k])

(***************************************************************************)
(* The tree: walk is the flattened os.walk(target_directory), one record   *)
(* [dirs, name] per file, a directory's files adjacent, the top directory  *)
(* first; stat[i] is what os.path.getsize does on file i.                  *)
(***************************************************************************)
ErrorKinds == {"FileNotFoundError", "PermissionError", "OSError"}

full_path_of(top, f) == os_path_join(WalkDir(top, f.dirs), f.name)

\* relative_path of lines 126-127 / 334-335.
relative_path_of(full_path, top) ==
    Replace(<<"/">> \o os_path_relpath(full_path, top), os_sep, <<"/">>)

\* f"{relative_path},{formatted_size}"
mut_entry_of_no_space(relative_path, formatted_size) ==
    relative_path \o <<",">> \o formatted_size

\* f"{relative_path}, {formatted_size}"
entry_of(relative_path, formatted_size) ==
    relative_path \o <<",", " ">> \o formatted_size

(***************************************************************************)
(* scan_files: one file of the loop per step; a yield hands the pair to    *)
(* the consumer in the same step.                                          *)
(***************************************************************************)
\* A failed getsize is not counted.
mut_scan_files_step_uncounted ==
    /\ s_pc = "run"
    /\ s_idx < Len(walk)
    /\ LET i         == s_idx + 1
           filename  == walk[i].name
           full_path == full_path_of(target_directory, walk[i])
       IN  /\ s_idx' = i
           /\ s_files_scanned' = s_files_scanned + 1
           /\ IF ~should_exclude(full_path, filename, exclude_patterns)
              THEN IF stat[i].err = "none"
                   THEN /\ yielded' = Append(yielded,
                               <<relative_path_of(full_path, target_directory),
                                 format_file_size(stat[i].size, size_unit)>>)
                        /\ s_errors' = s_errors
                   ELSE /\ s_errors' = s_errors
                        /\ yielded' = yielded
              ELSE /\ s_errors' = s_errors
                   /\ yielded' = yielded
    /\ s_pc' = s_pc

scan_files_step ==
    /\ s_pc = "run"
    /\ s_idx < Len(walk)
    /\ LET i         == s_idx + 1
           filename  == walk[i].name
           full_path == full_path_of(target_directory, walk[i])
       IN  /\ s_idx' = i
           /\ s_files_scanned' = s_files_scanned + 1
           /\ IF ~should_exclude(full_path, filename, exclude_patterns)
              THEN CASE stat[i].err = "none" ->
                          /\ yielded' = Append(yielded,
                                 <<relative_path_of(full_path, target_directory),
                                   format_file_size(stat[i].size, size_unit)>>)
                          /\ s_errors' = s_errors
                     [] stat[i].err = "FileNotFoundError" ->
                          /\ s_errors' = s_errors + 1
                          /\ yielded' = yielded
                     [] stat[i].err = "PermissionError" ->
                          /\ s_errors' = s_errors + 1
                          /\ yielded' = yielded
                     [] stat[i].err = "OSError" ->
                          /\ s_errors' = s_errors + 1
                          /\ yielded' = yielded
              ELSE /\ s_errors' = s_errors
                   /\ yielded' = yielded
    /\ s_pc' = s_pc

\* The walk is exhausted: scan_files returns (files_scanned,
\* errors_encountered), which reaches the consumer as StopIteration.
scan_files_return ==
    /\ s_pc = "run"
    /\ s_idx = Len(walk)
    /\ s_pc' = "returned"
    /\ UNCHANGED <<s_idx, s_files_scanned, s_errors, yielded>>

(***************************************************************************)
(* build_file_list: one file of the loop per step.                         *)
(***************************************************************************)
\* A failed getsize ends the walk.
mut_build_file_list_step_abort ==
    /\ b_pc = "run"
    /\ b_idx < Len(walk)
    /\ LET i         == b_idx + 1
           filename  == walk[i].name
           full_path == full_path_of(target_directory, walk[i])
       IN  /\ b_files_scanned' = b_files_scanned + 1
           /\ IF ~should_exclude(full_path, filename, exclude_patterns)
              THEN IF stat[i].err = "none"
                   THEN /\ results_list' = Append(results_list,
                               entry_of(relative_path_of(full_path, target_directory),
                                        format_file_size(stat[i].size, size_unit)))
                        /\ b_errors' = b_errors
                        /\ b_idx' = i
                   ELSE /\ b_errors' = b_errors + 1
                        /\ results_list' = results_list
                        /\ b_idx' = Len(walk)
              ELSE /\ b_errors' = b_errors
                   /\ results_list' = results_list
                   /\ b_idx' = i
    /\ b_pc' = b_pc

build_file_list_step ==
    /\ b_pc = "run"
    /\ b_idx < Len(walk)
    /\ LET i         == b_idx + 1
           filename  == walk[i].name
           full_path == full_path_of(target_directory, walk[i])
       IN  /\ b_idx' = i
           /\ b_files_scanned' = b_files_scanned + 1
           /\ IF ~should_exclude(full_path, filename, exclude_patterns)
              THEN CASE stat[i].err = "none" ->
                          /\ results_list' = Append(results_list,
                                 entry_of(relative_path_of(full_path, target_directory),
                                          format_file_size(stat[i].size, size_unit)))
                          /\ b_errors' = b_errors
                     [] stat[i].err = "FileNotFoundError" ->
                          /\ b_errors' = b_errors + 1
                          /\ results_list' = results_list
                     [] stat[i].err = "PermissionError" ->
                          /\ b_errors' = b_errors + 1
                          /\ results_list' = results_list
                     [] stat[i].err = "OSError" ->
                          /\ b_errors' = b_errors + 1
                          /\ results_list' = results_list
              ELSE /\ b_errors' = b_errors
                   /\ results_list' = results_list
    /\ b_pc' = b_pc

\* return results_list, files_scanned, errors_encountered
build_file_list_return ==
    /\ b_pc = "run"
    /\ b_idx = Len(walk)
    /\ b_pc' = "returned"
    /\ UNCHANGED <<b_idx, b_files_scanned, b_errors, results_list>>

(***************************************************************************)
(* parse_arguments                                                         *)
(***************************************************************************)
\* An option that was not given on the command line.
NotGiven == <<"<", "n", "o", "t", " ", "g", "i", "v", "e", "n", ">">>

DEFAULT_DIRECTORY == <<".", "/", "e", "x", "a", "m", "p", "l", "e">>
DEFAULT_UNIT == <<"M", "B">>
DEFAULT_OUTPUT == <<"f", "i", "l", "e", "i", "n", "f", "o", ".", "t", "x", "t">>
\* ['/.git/', '.DS_Store', 'README.md', '.png', '.txt', '.md']
DEFAULT_EXCLUDE ==
    << <<"/", ".", "g", "i", "t", "/">>,
       <<".", "D", "S", "_", "S", "t", "o", "r", "e">>,
       <<"R", "E", "A", "D", "M", "E", ".", "m", "d">>,
       <<".", "p", "n", "g">>,
       <<".", "t", "x", "t">>,
       <<".", "m", "d">> >>

\* parse_arguments() on the command line cmd = [directory, unit, output,
\* exclude, quiet]; exclude is the sequence of -e values in the order given.
\* action='append' copies the default list and appends each -e value to the
\* copy, so the defaults stay in front of whatever the user passes.
parse_arguments(cmd) ==
    [directory |-> IF cmd.directory = NotGiven THEN DEFAULT_DIRECTORY ELSE cmd.directory,
     unit      |-> IF cmd.unit = NotGiven THEN DEFAULT_UNIT ELSE cmd.unit,
     output    |-> IF cmd.output = NotGiven THEN DEFAULT_OUTPUT ELSE cmd.output,
     exclude   |-> DEFAULT_EXCLUDE \o cmd.exclude,
     quiet     |-> cmd.quiet]

(***************************************************************************)
(* main.  The try statement of line 209 has no except or finally clause,   *)
(* so the file as shipped is rejected by the compiler at line 285.  The    *)
(* actions below follow main's statements in order, with lines 213-282 as  *)
(* the body of that try.                                                   *)
(***************************************************************************)
NoSummary == [kind |-> "none"]

\* Lines 186-213: the arguments, the directory check, the three locals and
\* the creation of the generator (whose body has not started).
main_start ==
    /\ pc = "start"
    /\ LET args == parse_arguments(argv)
       IN  /\ target_directory' = args.directory
           /\ size_unit' = args.unit
           /\ exclude_patterns' = args.exclude
           /\ output_filename' = args.output
           /\ quiet_mode' = args.quiet
    /\ IF ~target_is_dir
       THEN /\ pc' = "exit1"
            /\ UNCHANGED <<file_info_list, m_files_scanned, m_errors, s_vars>>
       ELSE /\ pc' = "scan"
            /\ file_info_list' = <<>>
            /\ m_files_scanned' = 0
            /\ m_errors' = 0
            /\ s_pc' = "run"
            /\ s_idx' = 0
            /\ s_files_scanned' = 0
            /\ s_errors' = 0
            /\ yielded' = <<>>
    /\ UNCHANGED <<argv, disk, writes, summary, run, tree_vars, b_vars, fmt_vars>>

\* The loop writes the report as it goes.
mut_main_loop_streaming ==
    /\ pc = "scan"
    /\ scan_files_step
    /\ file_info_list' =
           IF Len(yielded') > Len(yielded)
           THEN Append(file_info_list,
                       entry_of(yielded'[Len(yielded')][1], yielded'[Len(yielded')][2]))
           ELSE file_info_list
    /\ IF Len(yielded') > Len(yielded)
       THEN /\ disk' = [exists |-> TRUE,
                        content |-> Join(<<",", "\n">>, file_info_list')]
            /\ writes' = writes + 1
       ELSE UNCHANGED <<disk, writes>>
    /\ UNCHANGED <<pc, argv, quiet_mode, output_filename, m_files_scanned, m_errors,
                   summary, run, input_vars, tree_vars, b_vars, fmt_vars>>

\* Lines 215-216: the for loop drives the generator; each pair it yields is
\* appended as "relative_path, formatted_size".
main_loop ==
    /\ pc = "scan"
    /\ scan_files_step
    /\ file_info_list' =
           IF Len(yielded') > Len(yielded)
           THEN Append(file_info_list,
                       entry_of(yielded'[Len(yielded')][1], yielded'[Len(yielded')][2]))
           ELSE file_info_list
    /\ UNCHANGED <<pc, argv, quiet_mode, output_filename, m_files_scanned, m_errors,
                   disk, writes, summary, run, input_vars, tree_vars, b_vars, fmt_vars>>

\* The generator is exhausted and the loop ends.  Its return value travels
\* in the StopIteration the for statement swallows; nothing is assigned to
\* files_scanned or errors_encountered.  The def of lines 247-282 binds a
\* local function that is never called.
main_loop_end ==
    /\ pc = "scan"
    /\ scan_files_return
    /\ pc' = "export"
    /\ UNCHANGED <<argv, quiet_mode, output_filename, file_info_list, m_files_scanned,
                   m_errors, disk, writes, summary, run, input_vars, tree_vars,
                   b_vars, fmt_vars>>

\* The entries are joined by a line break alone.
mut_main_export_newline_only ==
    /\ pc = "export"
    /\ LET files_included == Len(file_info_list)
       IN  IF file_info_list = <<>>
           THEN /\ summary' = IF quiet_mode THEN NoSummary
                              ELSE [kind |-> "empty", scanned |-> m_files_scanned,
                                    errors |-> m_errors]
                /\ pc' = "done"
                /\ UNCHANGED <<disk, writes>>
           ELSE \E opened \in BOOLEAN :
                    IF opened
                    THEN /\ disk' = [exists |-> TRUE,
                                     content |-> Join(<<"\n">>, file_info_list)]
                         /\ writes' = writes + 1
                         /\ summary' = IF quiet_mode THEN NoSummary
                                       ELSE [kind |-> "wrote", scanned |-> m_files_scanned,
                                             included |-> files_included,
                                             errors |-> m_errors]
                         /\ pc' = "done"
                    ELSE /\ pc' = "exit1"
                         /\ UNCHANGED <<disk, writes, summary>>
    /\ UNCHANGED <<argv, quiet_mode, output_filename, file_info_list, m_files_scanned,
                   m_errors, run, input_vars, tree_vars, s_vars, b_vars, fmt_vars>>

\* Lines 285-311: nothing is written for an empty list; otherwise the file
\* os.path.join(target_directory, output_filename) is opened for writing
\* (created or truncated) and receives ',\n'.join(file_info_list).  An open
\* that fails (IOError) ends the run with exit status 1.
main_export ==
    /\ pc = "export"
    /\ LET files_included == Len(file_info_list)
       IN  IF file_info_list = <<>>
           THEN /\ summary' = IF quiet_mode THEN NoSummary
                              ELSE [kind |-> "empty", scanned |-> m_files_scanned,
                                    errors |-> m_errors]
                /\ pc' = "done"
                /\ UNCHANGED <<disk, writes>>
           ELSE \E opened \in BOOLEAN :
                    IF opened
                    THEN /\ disk' = [exists |-> TRUE,
                                     content |-> Join(<<",", "\n">>, file_info_list)]
                         /\ writes' = writes + 1
                         /\ summary' = IF quiet_mode THEN NoSummary
                                       ELSE [kind |-> "wrote", scanned |-> m_files_scanned,
                                             included |-> files_included,
                                             errors |-> m_errors]
                         /\ pc' = "done"
                    ELSE /\ pc' = "exit1"
                         /\ UNCHANGED <<disk, writes, summary>>
    /\ UNCHANGED <<argv, quiet_mode, output_filename, file_info_list, m_files_scanned,
                   m_errors, run, input_vars, tree_vars, s_vars, b_vars, fmt_vars>>

InsertAt(seq, pos, x) ==
    SubSeq(seq, 1, pos - 1) \o <<x>> \o SubSeq(seq, pos, Len(seq))

\* The same command line is run again.  The directory is as the previous run
\* left it: the report, if one was written, is now a file of the top
\* directory (listed at any position among that directory's files) whose
\* size is the length of what was written.
main_rerun ==
    /\ pc = "done"
    /\ run < MaxRuns
    /\ run' = run + 1
    /\ pc' = "start"
    /\ writes' = 0
    /\ summary' = NoSummary
    /\ file_info_list' = <<>>
    /\ m_files_scanned' = 0
    /\ m_errors' = 0
    /\ LET report == [dirs |-> <<>>, name |-> output_filename]
           meta   == [err |-> "none", size |-> BigOfInt(Len(disk.content))]
           nroot  == Cardinality({i \in 1..Len(walk) : walk[i].dirs = <<>>})
       IN  IF ~disk.exists
           THEN UNCHANGED <<walk, stat>>
           ELSE IF \E i \in 1..Len(walk) : walk[i] = report
           THEN /\ walk' = walk
                /\ stat' = [i \in 1..Len(walk) |->
                               IF walk[i] = report THEN meta ELSE stat[i]]
           ELSE \E pos \in 1..(nroot + 1) :
                    /\ walk' = InsertAt(walk, pos, report)
                    /\ stat' = InsertAt(stat, pos, meta)
    /\ UNCHANGED <<argv, quiet_mode, output_filename, disk, target_is_dir,
                   input_vars, s_vars, b_vars, fmt_vars>>

(***************************************************************************)
(* Inputs.                                                                 *)
(***************************************************************************)
\* Base-1024 digits that reach the rounding cases of two decimals: below
\* and above half a hundredth (5, 6), the exact ties .125 and .375 (128,
\* 384), and the carry into the integer part (1023).
DigitSamples == {0, 1, 5, 6, 128, 384, 1023}

SizeSamples ==
    {ds \in UNION {[1..n -> DigitSamples] : n \in 0..MaxDigits} :
        ds = <<>> \/ ds[Len(ds)] # 0}

UnitSamples ==
    { <<"B", "y", "t", "e">>, <<"b", "y", "t", "e">>, <<"K", "B">>, <<"k", "B">>,
      <<"M", "B">>, <<"m", "b">>, <<"G", "B">>, <<"g", "B">>, <<"T", "B">>,
      <<"t", "b">>, <<"X", "B">>, <<"B", "y", "t", "e", "s">> }

\* The files a tree may hold, in the order os.walk visits them.
Universe ==
    << [dirs |-> <<>>, name |-> <<"a", ".", "p", "y">>],
       [dirs |-> <<>>, name |-> <<"n", ".", "t", "x", "t">>],
       [dirs |-> << <<".", "g", "i", "t">> >>, name |-> <<"H", "E", "A", "D">>],
       [dirs |-> << <<"s">> >>, name |-> <<"a", ".", "p", "y">>] >>

RECURSIVE Pick(_, _)
\* The files of Universe whose index is in S, in walk order from index i on.
Pick(S, i) ==
    IF i > Len(Universe) THEN <<>>
    ELSE (IF i \in S THEN <<Universe[i]>> ELSE <<>>) \o Pick(S, i + 1)

Walks ==
    {Pick(S, 1) : S \in {T \in SUBSET (1..Len(Universe)) : Cardinality(T) <= MaxFiles}}

\* What os.path.getsize does on a file: a size, or one of the errors.
Outcomes ==
    {[err |-> "none", size |-> sz] : sz \in {<<>>, <<512, 1>>}}
    \cup {[err |-> e, size |-> <<>>] : e \in ErrorKinds}

Targets == { <<"d">>, <<".", "/", "d", "/">> }

PatternLists ==
    { <<>>,
      << <<>> >>,
      << <<".", "p", "y">> >>,
      << <<"d", "/">> >>,
      << <<"/", "s", "/">>, <<"H", "E">> >>,
      DEFAULT_EXCLUDE }

ScanUnits == { <<"K", "B">>, <<"b", "y", "t", "e">> }

CommandLines ==
    [directory : {NotGiven, <<"d">>},
     unit      : {NotGiven, <<"B", "y", "t", "e">>},
     output    : {NotGiven, <<"o", "u", "t", ".", "c", "s", "v">>},
     exclude   : { <<>>, << <<".", "p", "y">> >>,
                   << <<"H", "E", "A", "D">>, <<".", "c", "s", "v">> >> },
     quiet     : BOOLEAN]

NoCommandLine ==
    [directory |-> NotGiven, unit |-> NotGiven, output |-> NotGiven,
     exclude |-> <<>>, quiet |-> FALSE]

IdleFormat ==
    /\ fmt_size = <<>>
    /\ fmt_unit = <<>>
    /\ fmt_out = <<>>
    /\ fmt_pc = "idle"

IdleInputs ==
    /\ target_directory = <<>>
    /\ exclude_patterns = <<>>
    /\ size_unit = <<>>

IdleTree ==
    /\ walk = <<>>
    /\ stat = <<>>
    /\ target_is_dir = TRUE

IdleScanFiles ==
    /\ s_pc = "idle"
    /\ s_idx = 0
    /\ s_files_scanned = 0
    /\ s_errors = 0
    /\ yielded = <<>>

IdleBuild ==
    /\ b_pc = "idle"
    /\ b_idx = 0
    /\ b_files_scanned = 0
    /\ b_errors = 0
    /\ results_list = <<>>

IdleMain ==
    /\ pc = "idle"
    /\ argv = NoCommandLine
    /\ quiet_mode = FALSE
    /\ output_filename = <<>>
    /\ file_info_list = <<>>
    /\ m_files_scanned = 0
    /\ m_errors = 0
    /\ disk = [exists |-> FALSE, content |-> <<>>]
    /\ writes = 0
    /\ summary = NoSummary
    /\ run = 1

(***************************************************************************)
(* SpecFormat: format_file_size on one (size, unit) input.                 *)
(***************************************************************************)
InitFormat ==
    /\ fmt_size \in SizeSamples
    /\ fmt_unit \in UnitSamples
    /\ fmt_out = <<>>
    /\ fmt_pc = "call"
    /\ IdleInputs /\ IdleTree /\ IdleScanFiles /\ IdleBuild /\ IdleMain

FormatCall ==
    /\ fmt_pc = "call"
    /\ fmt_out' = format_file_size(fmt_size, fmt_unit)
    /\ fmt_pc' = "returned"
    /\ UNCHANGED <<fmt_size, fmt_unit, input_vars, tree_vars, s_vars, b_vars, m_vars>>

NextFormat == FormatCall

SpecFormat == InitFormat /\ [][NextFormat]_vars

(***************************************************************************)
(* SpecScan: a caller consumes scan_files(...) to the end and calls        *)
(* build_file_list(...) with the same arguments on the same tree.          *)
(***************************************************************************)
InitScan ==
    /\ target_directory \in Targets
    /\ exclude_patterns \in PatternLists
    /\ size_unit \in ScanUnits
    /\ walk \in Walks
    /\ stat \in [1..Len(walk) -> Outcomes]
    /\ target_is_dir = TRUE
    /\ s_pc = "run"
    /\ s_idx = 0
    /\ s_files_scanned = 0
    /\ s_errors = 0
    /\ yielded = <<>>
    /\ b_pc = "run"
    /\ b_idx = 0
    /\ b_files_scanned = 0
    /\ b_errors = 0
    /\ results_list = <<>>
    /\ IdleFormat /\ IdleMain

ScanFilesNext ==
    /\ scan_files_step
    /\ UNCHANGED <<input_vars, tree_vars, b_vars, m_vars, fmt_vars>>

ScanFilesStop ==
    /\ scan_files_return
    /\ UNCHANGED <<input_vars, tree_vars, b_vars, m_vars, fmt_vars>>

BuildFileListNext ==
    /\ build_file_list_step
    /\ UNCHANGED <<input_vars, tree_vars, s_vars, m_vars, fmt_vars>>

BuildFileListReturn ==
    /\ build_file_list_return
    /\ UNCHANGED <<input_vars, tree_vars, s_vars, m_vars, fmt_vars>>

NextScan ==
    \/ ScanFilesNext
    \/ ScanFilesStop
    \/ BuildFileListNext
    \/ BuildFileListReturn

SpecScan == InitScan /\ [][NextScan]_vars

(***************************************************************************)
(* SpecMain: main() run MaxRuns times with one command line.               *)
(***************************************************************************)
InitMain ==
    /\ argv \in CommandLines
    /\ pc = "start"
    /\ run = 1
    /\ quiet_mode = FALSE
    /\ output_filename = <<>>
    /\ file_info_list = <<>>
    /\ m_files_scanned = 0
    /\ m_errors = 0
    /\ disk = [exists |-> FALSE, content |-> <<>>]
    /\ writes = 0
    /\ summary = NoSummary
    /\ target_is_dir \in BOOLEAN
    /\ walk \in (IF target_is_dir THEN Walks ELSE {<<>>})
    /\ stat \in [1..Len(walk) -> Outcomes]
    /\ IdleInputs /\ IdleScanFiles /\ IdleBuild /\ IdleFormat

NextMain ==
    \/ main_start
    \/ main_loop
    \/ main_loop_end
    \/ main_export
    \/ main_rerun

SpecMain == InitMain /\ [][NextMain]_vars

(***************************************************************************)
(* Arithmetic and text used to state the properties.                       *)
(***************************************************************************)
UpperChar(c) ==
    IF \E i \in 1..26 : LowerAlpha[i] = c
    THEN UpperAlpha[CHOOSE i \in 1..26 : LowerAlpha[i] = c]
    ELSE c

EqIgnoreCase(a, b) ==
    /\ Len(a) = Len(b)
    /\ \A i \in 1..Len(a) : UpperChar(a[i]) = UpperChar(b[i])

IsDigit(c) == \E d \in 1..10 : DigitChars[d] = c
DigitValue(c) == (CHOOSE d \in 1..10 : DigitChars[d] = c) - 1

\* A canonical decimal numeral: digits, no leading zero unless it is "0".
IsNumeral(s) ==
    /\ s # <<>>
    /\ \A i \in 1..Len(s) : IsDigit(s[i])
    /\ Len(s) > 1 => s[1] # "0"

RECURSIVE ParseDecFrom(_, _)
ParseDecFrom(s, acc) ==
    IF s = <<>> THEN BigNorm(acc)
    ELSE ParseDecFrom(Tail(s), MulSmall(acc, 10, DigitValue(Head(s))))
\* The natural a string of decimal digits denotes.
ParseDec(s) == ParseDecFrom(s, <<>>)

RECURSIVE BigAddC(_, _, _)
BigAddC(a, b, c) ==
    IF a = <<>> /\ b = <<>> THEN (IF c = 0 THEN <<>> ELSE <<c>>)
    ELSE LET x == IF a = <<>> THEN 0 ELSE Head(a)
             y == IF b = <<>> THEN 0 ELSE Head(b)
             t == x + y + c
         IN  <<t % BYTES_PER_KB>>
             \o BigAddC(IF a = <<>> THEN a ELSE Tail(a),
                        IF b = <<>> THEN b ELSE Tail(b), t \div BYTES_PER_KB)
BigAdd(a, b) == BigNorm(BigAddC(a, b, 0))

BigLeq(a, b) ==
    LET x == BigNorm(a)
        y == BigNorm(b)
    IN  \/ Len(x) < Len(y)
        \/ /\ Len(x) = Len(y)
           /\ \/ x = y
              \/ \E i \in 1..Len(x) :
                    /\ x[i] < y[i]
                    /\ \A j \in (i + 1)..Len(x) : x[j] = y[j]

\* x * 1024^k.
BigShift(x, k) == IF BigNorm(x) = <<>> THEN <<>> ELSE [i \in 1..k |-> 0] \o BigNorm(x)

\* The hundredths count H is a nearest one to n / 1024^k,
\* |200 n - 2 H 1024^k| <= 1024^k, and the even one of the two when n / 1024^k
\* lies exactly between two hundredths.
NearestHundredths(H, n, k) ==
    LET a == BigNorm(MulSmall(n, 200, 0))
        t == BigShift(MulSmall(H, 2, 0), k)
        d == BigShift(<<1>>, k)
    IN  /\ BigLeq(a, BigAdd(t, d))
        /\ BigLeq(t, BigAdd(a, d))
        /\ (a = BigAdd(t, d) \/ t = BigAdd(a, d)) => DivSmall(H, 2).r = 0

\* The power of 1024 a unit divides by: 0 for Byte and for anything that is
\* not KB, MB, GB or TB in some mix of cases.
UnitExponent(u) ==
    IF EqIgnoreCase(u, <<"K", "B">>) THEN 1
    ELSE IF EqIgnoreCase(u, <<"M", "B">>) THEN 2
    ELSE IF EqIgnoreCase(u, <<"G", "B">>) THEN 3
    ELSE IF EqIgnoreCase(u, <<"T", "B">>) THEN 4
    ELSE 0

UnitSuffix(k) ==
    CASE k = 1 -> <<"K", "B">>
      [] k = 2 -> <<"M", "B">>
      [] k = 3 -> <<"G", "B">>
      [] k = 4 -> <<"T", "B">>
      [] OTHER -> <<"B", "y", "t", "e", "s">>

FormattedAs(out, n, u) ==
    LET k     == UnitExponent(u)
        words == Split(out, " ")
    IN  /\ Len(words) = 2
        /\ words[2] = UnitSuffix(k)
        /\ IF k = 0
           THEN IsNumeral(words[1]) /\ ParseDec(words[1]) = BigNorm(n)
           ELSE LET parts == Split(words[1], ".")
                IN  /\ Len(parts) = 2
                    /\ IsNumeral(parts[1])
                    /\ Len(parts[2]) = 2
                    /\ \A i \in 1..2 : IsDigit(parts[2][i])
                    /\ NearestHundredths(ParseDec(parts[1] \o parts[2]), n, k)

Rejected(i) ==
    should_exclude(full_path_of(target_directory, walk[i]), walk[i].name,
                   exclude_patterns)
RejectedUpTo(n) == {i \in 1..n : Rejected(i)}
ErroredUpTo(n) == {i \in 1..n : ~Rejected(i) /\ stat[i].err \in ErrorKinds}
IncludedUpTo(n) == {i \in 1..n : ~Rejected(i) /\ stat[i].err = "none"}

(***************************************************************************)
(* C1  Count invariant.  After every processed file, and at completion, in *)
(* build_file_list and in scan_files: the number of entries collected      *)
(* equals files_scanned minus the files rejected by should_exclude minus   *)
(* errors_encountered, where files_scanned is the number of files visited, *)
(* errors_encountered the number of visited non-rejected files whose size  *)
(* could not be read, and every other visited file produced an entry.      *)
(***************************************************************************)
C1_CountInvariant ==
    /\ b_pc \in {"run", "returned"} =>
          /\ b_files_scanned = b_idx
          /\ b_errors = Cardinality(ErroredUpTo(b_idx))
          /\ Len(results_list) = Cardinality(IncludedUpTo(b_idx))
          /\ Len(results_list) =
                 b_files_scanned - Cardinality(RejectedUpTo(b_idx)) - b_errors
    /\ s_pc \in {"run", "returned"} =>
          /\ s_files_scanned = s_idx
          /\ s_errors = Cardinality(ErroredUpTo(s_idx))
          /\ Len(yielded) = Cardinality(IncludedUpTo(s_idx))
          /\ Len(yielded) =
                 s_files_scanned - Cardinality(RejectedUpTo(s_idx)) - s_errors

\* Both scans are complete and each of the three classes has a file.
C1_Witness ==
    /\ b_pc = "returned"
    /\ s_pc = "returned"
    /\ Len(results_list) = 1
    /\ Len(yielded) = 1
    /\ b_errors = 1
    /\ s_errors = 1
    /\ Cardinality(RejectedUpTo(Len(walk))) = 1

(***************************************************************************)
(* C2  Exclusion rule.  A visited file is skipped (it produces neither an  *)
(* entry nor an error) exactly when some pattern of the list occurs as a   *)
(* literal substring of os.path.join(dirpath, filename), the target        *)
(* directory prefix included; with the empty list no file is skipped, and  *)
(* an empty-string pattern skips every file.                               *)
(***************************************************************************)
IsLiteralSubstring(p, h) ==
    \E a \in 0..Len(h) : \E b \in a..Len(h) : SubSeq(h, a + 1, b) = p

MatchesSomePattern(i) ==
    \E k \in 1..Len(exclude_patterns) :
        IsLiteralSubstring(exclude_patterns[k], full_path_of(target_directory, walk[i]))

C3_PerFileError ==
    /\ [][ /\ (b_idx' # b_idx /\ ~Rejected(b_idx + 1)
                  /\ stat[b_idx + 1].err \in ErrorKinds) =>
                 /\ b_errors' = b_errors + 1
                 /\ results_list' = results_list
                 /\ b_idx' = b_idx + 1
                 /\ b_pc' = "run"
           /\ (s_idx' # s_idx /\ ~Rejected(s_idx + 1)
                  /\ stat[s_idx + 1].err \in ErrorKinds) =>
                 /\ s_errors' = s_errors + 1
                 /\ yielded' = yielded
                 /\ s_idx' = s_idx + 1
                 /\ s_pc' = "run" ]_vars
    /\ [](b_pc = "returned" => b_files_scanned = Len(walk) /\ b_idx = Len(walk))
    /\ [](s_pc = "returned" => s_files_scanned = Len(walk) /\ s_idx = Len(walk))

\* The second of three files failed with PermissionError; the first and the
\* third were collected, and the scan returned.
C3_Witness ==
    /\ b_pc = "returned"
    /\ Len(walk) = 3
    /\ stat[2].err = "PermissionError"
    /\ b_errors = 1
    /\ Len(results_list) = 2
    /\ b_files_scanned = 3

(***************************************************************************)
(* C8  Equivalence of the two scans.  On the same tree, patterns, unit and *)
(* per-file outcomes, scan_files consumed to the end has yielded the pairs *)
(* (path, size) whose texts "path, size" are, in order, the entries        *)
(* build_file_list returns, and both end with the same files_scanned and   *)
(* errors_encountered.                                                     *)
(***************************************************************************)
C8_ScanVariantsAgree ==
    (s_pc = "returned" /\ b_pc = "returned") =>
        /\ Len(yielded) = Len(results_list)
        /\ \A i \in 1..Len(yielded) :
               results_list[i] = yielded[i][1] \o <<",", " ">> \o yielded[i][2]
        /\ s_files_scanned = b_files_scanned
        /\ s_errors = b_errors

C8_Witness ==
    /\ s_pc = "returned"
    /\ b_pc = "returned"
    /\ Len(yielded) = 2
    /\ s_errors = 1
    /\ yielded[1][1] # yielded[2][1]

(***************************************************************************)
(* The report, for the properties of main.                                 *)
(***************************************************************************)
RECURSIVE IncludedFrom(_)
\* The indices of the included files of the walk from index i on, in order.
IncludedFrom(i) ==
    IF i > Len(walk) THEN <<>>
    ELSE (IF ~Rejected(i) /\ stat[i].err = "none" THEN <<i>> ELSE <<>>)
         \o IncludedFrom(i + 1)

\* "<path>, <size>" for file i: '/' and the file's path below the target
\* directory with '/' separators, a comma and a space, the formatted size.
ExpectedLine(i) ==
    <<"/">> \o Join(<<"/">>, Append(walk[i].dirs, walk[i].name))
    \o <<",", " ">> \o format_file_size(stat[i].size, size_unit)

ReportLines == Split(disk.content, "\n")

(***************************************************************************)
(* C4  Report format (as claimed).  After a run that wrote the report, the *)
(* file holds one line per included file, in walk order, and every line is *)
(* exactly "<path>, <size>".                                               *)
(***************************************************************************)
C4_EveryLineExact ==
    (pc = "done" /\ writes = 1) =>
        LET inc == IncludedFrom(1)
        IN  /\ Len(ReportLines) = Len(inc)
            /\ \A j \in 1..Len(inc) : ReportLines[j] = ExpectedLine(inc[j])

(***************************************************************************)
(* C4  Report format (amended).  After a run that wrote the report, the    *)
(* file holds one line per included file, in walk order; the last line is  *)
(* exactly "<path>, <size>" and every line before it is "<path>, <size>,": *)
(* the entries are joined by a comma and a line break.                     *)
(***************************************************************************)
C4_ReportFormat ==
    (pc = "done" /\ writes = 1) =>
        LET inc == IncludedFrom(1)
        IN  /\ Len(ReportLines) = Len(inc)
            /\ \A j \in 1..Len(inc) :
                   ReportLines[j] =
                       ExpectedLine(inc[j]) \o (IF j < Len(inc) THEN <<",">> ELSE <<>>)

\* A report of two lines, one of them for a file of a sub-directory.
C4_Witness ==
    /\ pc = "done"
    /\ writes = 1
    /\ Len(file_info_list) = 2
    /\ \E i \in 1..Len(walk) :
           walk[i].dirs # <<>> /\ ~Rejected(i) /\ stat[i].err = "none"

(***************************************************************************)
(* C6  Summary counts (as claimed).  The summary main prints reports as    *)
(* 'Total files scanned' the number of files the walk visited, as 'Errors' *)
(* the number of per-file errors of the scan and as 'Included' the number  *)
(* of entries written, so scanned >= included + errors.                    *)
(***************************************************************************)
C6_SummaryCounts ==
    summary.kind # "none" =>
        /\ summary.scanned = Len(walk)
        /\ summary.errors = Cardinality(ErroredUpTo(Len(walk)))
        /\ summary.kind = "wrote" =>
               /\ summary.included = Len(file_info_list)
               /\ summary.scanned >= summary.included + summary.errors

(***************************************************************************)
(* C7  Write ordering.  In a run the output file is written at most once;  *)
(* the step that writes it is the export, taken after the generator has    *)
(* returned with every file of the walk visited and every included file's  *)
(* entry collected, and with a non-empty list; with an empty list the      *)
(* export leaves the file as it was (absent, or as an earlier run wrote    *)
(* it).                                                                    *)
(***************************************************************************)
C7_WriteOrdering ==
    /\ [][ (writes' > writes \/ disk' # disk) =>
               /\ pc = "export"
               /\ s_pc = "returned"
               /\ s_idx = Len(walk)
               /\ Len(file_info_list) = Len(IncludedFrom(1))
               /\ file_info_list # <<>>
               /\ writes = 0
               /\ writes' = 1 ]_vars
    /\ [](writes <= 1)

\* The second run has written the report, once, over the first run's.
C7_Witness ==
    /\ run = 2
    /\ pc = "done"
    /\ writes = 1
    /\ Len(walk) >= 3

(***************************************************************************)
(* C9  Effective exclude patterns (as claimed).  The list used for the     *)
(* scan is the -e values, in the order given, when there is at least one,  *)
(* and the default list only when there is none.                           *)
(***************************************************************************)
C9_EffectivePatterns ==
    pc \in {"scan", "export", "done"} =>
        exclude_patterns =
            (IF argv.exclude # <<>> THEN argv.exclude ELSE DEFAULT_EXCLUDE)

(***************************************************************************)
(* C10  Re-run idempotence (as claimed).  The second run over the tree the *)
(* first run left behind collects the entries the first run wrote: when it *)
(* reaches the export, its entries joined are the content of the report of *)
(* the first run (nothing, when the first run wrote none).                 *)
(***************************************************************************)
C10_RerunSameEntries ==
    (run = 2 /\ pc = "export") =>
        Join(<<",", "\n">>, file_info_list) = disk.content

====
